---- MODULE Spec2Model ----
(***************************************************************************)
(* Model of flow-core-validation: the validator, pipeline, conditional     *)
(* validator and builder implementations that the repository ships in its  *)
(* README (StringValidationPipeline, EmailValidator, NumberRangeValidator, *)
(* ConditionalEmailValidator) and in test/validation.test.ts (TestValidator,*)
(* TestValidationPipeline, TestConditionalValidator, TestValidationBuilder).*)
(*                                                                         *)
(* A JavaScript string is a sequence of one-character strings.  An async   *)
(* function is a process: it runs synchronously up to an await, and is     *)
(* resumed by a later step when the awaited promise has settled.           *)
(*                                                                         *)
(* The result convention (success / failure / flowError) comes from the    *)
(* external package @codechu/flow-core-seed.  The README reads a result    *)
(* through isSuccess / value, the tests through success / data; the model  *)
(* uses the README's names for the one tagged result shape.                *)
(***************************************************************************)
EXTENDS Integers, Sequences, FiniteSets, TLC

\* ------------------------------------------------------------------ bounds

\* Largest number of validators attached to one pipeline.
MaxValidators == 3

\* Largest number of rule declarations made on one builder.
MaxRules == 3

\* Numbers (inputs, min, max) of NumberRangeValidator range over 0..MaxNum.
MaxNum == 2

\* Largest number of entries pushed on one validationHistory.
MaxHistory == 3

\* Date.now() returns a timestamp in 0..MaxTime.
MaxTime == 1

\* ----------------------------------------------------------------- strings

\* The input strings: "", " x ", " ", "a", "a@", "a@a.a", "A@x.a", "a@ a.a".
Inputs ==
  { <<>>,
    <<" ", "x", " ">>,
    <<" ">>,
    <<"a">>,
    <<"a", "@">>,
    <<"a", "@", "a", ".", "a">>,
    <<"A", "@", "x", ".", "a">>,
    <<"a", "@", " ", "a", ".", "a">> }

\* String.prototype.toUpperCase, character by character.
toUpperCase(s) ==
  [i \in DOMAIN s |-> CASE s[i] = "a" -> "A" [] s[i] = "x" -> "X" [] OTHER -> s[i]]

\* String.prototype.toLowerCase, character by character.
toLowerCase(s) ==
  [i \in DOMAIN s |-> CASE s[i] = "A" -> "a" [] s[i] = "X" -> "x" [] OTHER -> s[i]]

RECURSIVE trimStart(_)
trimStart(s) == IF s # <<>> /\ Head(s) = " " THEN trimStart(Tail(s)) ELSE s

RECURSIVE trimEnd(_)
trimEnd(s) ==
  IF s # <<>> /\ s[Len(s)] = " " THEN trimEnd(SubSeq(s, 1, Len(s) - 1)) ELSE s

\* String.prototype.trim: whitespace removed at both ends.
trim(s) == trimEnd(trimStart(s))

\* String.prototype.includes for a one-character needle.
includes(s, c) == \E i \in DOMAIN s : s[i] = c

\* /^[^\s@]+@[^\s@]+\.[^\s@]+$/.test(s): no whitespace, exactly one "@" with
\* something before it, and after it a "." that has something on both sides.
emailRegexTest(s) ==
  /\ ~includes(s, " ")
  /\ \E i \in DOMAIN s :
       /\ s[i] = "@"
       /\ \A k \in DOMAIN s : s[k] = "@" => k = i
       /\ i >= 2
       /\ \E j \in (i + 2)..(Len(s) - 1) : s[j] = "."

\* ------------------------------------------------- the result convention

\* The value of a variable that holds no object (yet).
None == [none |-> TRUE]

success(v) == [isSuccess |-> TRUE, value |-> v]

flowError(code, message) == [code |-> code, message |-> message]

failure(e) == [isSuccess |-> FALSE, error |-> e]

\* -------------------------------------------------------------- validators

\* The validator classes that validate strings.
StringValidators == {"TestValidator", "EmailValidator"}

\* The id field of a validator of the class.
Id(v) ==
  CASE v = "TestValidator" -> "test-validator"
    [] v = "EmailValidator" -> "email-validator"

\* TestValidator.validate
TestValidator_validate(input) == success(toUpperCase(input))

\* EmailValidator.validate
EmailValidator_validate(input) ==
  IF emailRegexTest(input)
    THEN success(toLowerCase(input))
    ELSE failure(flowError("INVALID_EMAIL", "Invalid email format"))

\* A validate whose out-of-range branch returns nothing.
NumberRangeValidator_validate_noElse(min, max, input) ==
  IF input >= min /\ input <= max THEN success(input) ELSE None

\* NumberRangeValidator.validate
NumberRangeValidator_validate(min, max, input) ==
  IF input >= min /\ input <= max
    THEN success(input)
    ELSE failure(flowError("OUT_OF_RANGE", <<"Number", input, "not in range", min, max>>))

\* validator.validate(input, context) for a validator of string class v.
validate(v, input) ==
  CASE v = "TestValidator" -> TestValidator_validate(input)
    [] v = "EmailValidator" -> EmailValidator_validate(input)

\* ------------------------------------------------------------------- state

VARIABLES
  subject,     \* which object the client constructed and exercises
  impl,        \* class of the pipeline object
  validators,  \* the pipeline's private validators array
  added,       \* ids of the validators passed to addValidator, in call order
  info,        \* the object returned by the last getPipelineInfo call
  run,         \* the validatePipeline call (one async function instance)
  cond,        \* the conditional validator and its validateConditionally call
  builder,     \* the validation builder, the validator it built, its last result
  single,      \* a single validator and its last validate call
  context,     \* the validation context (IFlowValidationContext)
  vresult      \* the validation result object (IFlowValidationResult)

vars == <<subject, impl, validators, added, info, run, cond, builder, single,
          context, vresult>>

Subjects == {"pipeline", "conditional", "builder", "validator", "context", "result"}

\* The two pipeline classes.
PipelineClasses == {"StringValidationPipeline", "TestValidationPipeline"}

\* The two conditional validator classes.
ConditionalClasses == {"TestConditionalValidator", "ConditionalEmailValidator"}

\* ---------------------------------------------------------------- pipeline

\* A validatePipeline call that has not been made.  attachedAtCall and
\* attachedAtReturn note the length of the validators array when the call
\* was made and when it returned.
NoRun ==
  [ pc |-> "idle", input |-> <<>>, current |-> <<>>, index |-> 0,
    calls |-> <<>>, results |-> <<>>, result |-> None, resultObj |-> 0,
    resolutions |-> 0, attachedAtCall |-> 0, attachedAtReturn |-> 0 ]

\* A push that leaves out an element the array already holds.
push_unique(arr, v) ==
  IF \E i \in DOMAIN arr : arr[i] = v THEN arr ELSE Append(arr, v)

\* A push that puts the new element first.
push_front(arr, v) == <<v>> \o arr

\* Array.prototype.push
push(arr, v) == Append(arr, v)

\* getPipelineInfo(): count and ids of the live validators array.
getPipelineInfo ==
  [ validatorCount |-> Len(validators),
    validatorIds |-> [i \in DOMAIN validators |-> Id(validators[i])] ]

\* The async function returns: its promise resolves with res.  obj is the
\* position of the validate call whose result object is handed back, 0 for
\* an object the pipeline made itself.
return(r, res, obj) ==
  [ r EXCEPT !.pc = "done", !.result = res, !.resultObj = obj,
             !.resolutions = @ + 1, !.attachedAtReturn = Len(validators) ]

\* A loop that walks the array from its last element to its first.
loop_reversed(r) ==
  IF r.index < Len(validators)
    THEN [ r EXCEPT !.index = @ + 1, !.pc = "awaiting",
                    !.calls = Append(@, [ pos |-> r.index + 1,
                                          validator |-> validators[Len(validators) - r.index],
                                          arg |-> r.current ]) ]
    ELSE return(r, success(r.current), 0)

\* A loop that never returns once the array is exhausted.
loop_hang(r) ==
  IF r.index < Len(validators)
    THEN [ r EXCEPT !.index = @ + 1, !.pc = "awaiting",
                    !.calls = Append(@, [ pos |-> r.index + 1,
                                          validator |-> validators[r.index + 1],
                                          arg |-> r.current ]) ]
    ELSE [r EXCEPT !.pc = "awaiting"]

\* A loop over the validators that were attached when the call was made.
loop_snapshot(r) ==
  IF r.index < r.attachedAtCall
    THEN [ r EXCEPT !.index = @ + 1, !.pc = "awaiting",
                    !.calls = Append(@, [ pos |-> r.index + 1,
                                          validator |-> validators[r.index + 1],
                                          arg |-> r.current ]) ]
    ELSE return(r, success(r.current), 0)

\* A loop that rejects a pipeline without validators.
loop_emptyFails(r) ==
  IF r.index < Len(validators)
    THEN [ r EXCEPT !.index = @ + 1, !.pc = "awaiting",
                    !.calls = Append(@, [ pos |-> r.index + 1,
                                          validator |-> validators[r.index + 1],
                                          arg |-> r.current ]) ]
    ELSE IF r.index = 0
           THEN return(r, failure(flowError("EMPTY_PIPELINE", "No validators")), 0)
           ELSE return(r, success(r.current), 0)

\* The head of `for (const validator of this.validators)`: the array iterator
\* reads the live array; with an element left, validate is invoked on it with
\* current and the function suspends at the await, otherwise the loop is left
\* and success(current) returned.
loop(r) ==
  IF r.index < Len(validators)
    THEN [ r EXCEPT !.index = @ + 1, !.pc = "awaiting",
                    !.calls = Append(@, [ pos |-> r.index + 1,
                                          validator |-> validators[r.index + 1],
                                          arg |-> r.current ]) ]
    ELSE return(r, success(r.current), 0)

\* A failure that does not end the run: the loop goes on with current as it was.
onFailure_continue(r, res, k) == loop(r)

\* A failure that is wrapped in an error of the pipeline's own.
onFailure_wrap(r, res, k) ==
  return(r, failure(flowError("PIPELINE_FAILED", res.error)), 0)

\* After a failed validation: if (!result.isSuccess) return result;
onFailure(r, res, k) == return(r, res, k)

\* A validatePipeline that starts every attached validator at once.
StringValidationPipeline_validatePipeline_parallel(input) ==
  [ NoRun EXCEPT !.input = input, !.current = input,
                 !.index = Len(validators), !.pc = "awaiting",
                 !.calls = [ k \in DOMAIN validators |->
                               [pos |-> k, validator |-> validators[k], arg |-> input] ] ]

\* StringValidationPipeline.validatePipeline up to its first await.
StringValidationPipeline_validatePipeline(input) ==
  loop([NoRun EXCEPT !.input = input, !.current = input,
                     !.attachedAtCall = Len(validators)])

\* TestValidationPipeline.validatePipeline: return success(input).
TestValidationPipeline_validatePipeline(input) ==
  return([NoRun EXCEPT !.input = input, !.current = input,
                       !.attachedAtCall = Len(validators)], success(input), 0)

\* The continuation of validatePipeline after `await validator.validate(...)`.
resume(r) ==
  LET k   == Len(r.results) + 1
      res == validate(r.calls[k].validator, r.calls[k].arg)
      r1  == [r EXCEPT !.results = Append(@, res)]
  IN  IF ~res.isSuccess
        THEN onFailure(r1, res, k)
        ELSE loop([r1 EXCEPT !.current = res.value])

\* pipeline.addValidator(new v())
AddValidator(v) ==
  /\ subject = "pipeline"
  /\ Len(validators) < MaxValidators
  /\ validators' = push(validators, v)
  /\ added' = Append(added, Id(v))
  /\ UNCHANGED <<subject, impl, info, run, cond, builder, single, context, vresult>>

\* A getPipelineInfo that reverses the validators array in place before it
\* reads the ids.
GetPipelineInfo_reversing ==
  /\ subject = "pipeline"
  /\ validators' = [i \in DOMAIN validators |-> validators[Len(validators) + 1 - i]]
  /\ info' = [ validatorCount |-> Len(validators),
               validatorIds |-> [i \in DOMAIN validators |->
                                   Id(validators[Len(validators) + 1 - i])] ]
  /\ UNCHANGED <<subject, impl, added, run, cond, builder, single, context, vresult>>

\* info = pipeline.getPipelineInfo()
GetPipelineInfo ==
  /\ subject = "pipeline"
  /\ info' = getPipelineInfo
  /\ UNCHANGED <<subject, impl, validators, added, run, cond, builder, single, context, vresult>>

\* pipeline.validatePipeline(input, context) is called.
ValidatePipeline(input) ==
  /\ subject = "pipeline"
  /\ run.pc \in {"idle", "done"}
  /\ run' = IF impl = "StringValidationPipeline"
              THEN StringValidationPipeline_validatePipeline(input)
              ELSE TestValidationPipeline_validatePipeline(input)
  /\ UNCHANGED <<subject, impl, validators, added, info, cond, builder, single, context, vresult>>

\* The awaited validate promise settles and validatePipeline continues.
ResumePipeline ==
  /\ subject = "pipeline"
  /\ run.pc = "awaiting"
  /\ Len(run.calls) > Len(run.results)
  /\ run' = resume(run)
  /\ UNCHANGED <<subject, impl, validators, added, info, cond, builder, single, context, vresult>>

\* ----------------------------------------------------- conditional validator

\* A validateConditionally call that has not been made, on a validator of
\* class c.  events is the order in which the call evaluated its predicate
\* and performed its validation.
NoCall(c) ==
  [ class |-> c, pc |-> "idle", input |-> <<>>, should |-> FALSE,
    events |-> <<>>, result |-> None, resolutions |-> 0 ]

\* shouldValidate(input, context)
shouldValidate(c, input) ==
  CASE c = "TestConditionalValidator" -> Len(input) > 0
    [] c = "ConditionalEmailValidator" -> includes(input, "@")

\* The validation a conditional validator of class c applies:
\* success(input.trim()), or new EmailValidator().validate(input, context).
wrappedValidation(c, input) ==
  CASE c = "TestConditionalValidator" -> success(trim(input))
    [] c = "ConditionalEmailValidator" -> EmailValidator_validate(input)

\* The async function returns: its promise resolves with res.
condReturn(c, res) ==
  [c EXCEPT !.pc = "done", !.result = res, !.resolutions = @ + 1]

\* A validateConditionally that validates before it asks the predicate.
validateConditionally_eager(c, input) ==
  LET should == shouldValidate(c.class, input)
  IN  [ NoCall(c.class) EXCEPT !.pc = "awaitPredicate", !.input = input,
                                !.should = should,
                                !.events = << <<"validate", TRUE>>,
                                              <<"shouldValidate", should>> >> ]

\* validateConditionally up to `await this.shouldValidate(input, context)`:
\* shouldValidate is invoked and evaluates the predicate.
validateConditionally(c, input) ==
  LET should == shouldValidate(c.class, input)
  IN  [ NoCall(c.class) EXCEPT !.pc = "awaitPredicate", !.input = input,
                                !.should = should,
                                !.events = <<<<"shouldValidate", should>>>> ]

\* A continuation that validates whatever the predicate said.
afterPredicate_always(c) ==
  LET res == wrappedValidation(c.class, c.input)
      c1  == [c EXCEPT !.events = Append(@, <<"validate", TRUE>>)]
  IN  IF c.class = "TestConditionalValidator"
        THEN condReturn(c1, res)
        ELSE [c1 EXCEPT !.pc = "awaitValidation", !.result = res]

\* validateConditionally after the await: if (should) validate, else pass
\* the input through.  TestConditionalValidator returns a value;
\* ConditionalEmailValidator returns the promise of validate, which its own
\* promise follows.
afterPredicate(c) ==
  IF c.should
    THEN LET res == wrappedValidation(c.class, c.input)
             c1  == [c EXCEPT !.events = Append(@, <<"validate", TRUE>>)]
         IN  IF c.class = "TestConditionalValidator"
               THEN condReturn(c1, res)
               ELSE [c1 EXCEPT !.pc = "awaitValidation", !.result = res]
    ELSE condReturn(c, success(c.input))

\* conditional.validateConditionally(input, context) is called.
ValidateConditionally(input) ==
  /\ subject = "conditional"
  /\ cond.pc \in {"idle", "done"}
  /\ cond' = validateConditionally(cond, input)
  /\ UNCHANGED <<subject, impl, validators, added, info, run, builder, single, context, vresult>>

\* The shouldValidate promise settles and validateConditionally continues.
ResumeConditional ==
  /\ subject = "conditional"
  /\ cond.pc = "awaitPredicate"
  /\ cond' = afterPredicate(cond)
  /\ UNCHANGED <<subject, impl, validators, added, info, run, builder, single, context, vresult>>

\* The validate promise that validateConditionally returned settles.
SettleConditional ==
  /\ subject = "conditional"
  /\ cond.pc = "awaitValidation"
  /\ cond' = condReturn(cond, cond.result)
  /\ UNCHANGED <<subject, impl, validators, added, info, run, builder, single, context, vresult>>

\* ----------------------------------------------------------------- builder

\* The type names passed to type().
TypeNames == {"string", "number"}

\* new TestValidationBuilder(): no rules, nothing built, nothing validated.
NewBuilder ==
  [ rules |-> <<>>, built |-> "none", builtFrom |-> <<>>,
    input |-> <<>>, result |-> None ]

\* required(): this.rules.push('required')
required(b) == [b EXCEPT !.rules = push(@, <<"required">>)]

\* type(expectedType): this.rules.push(`type:${expectedType}`)
type(b, expectedType) == [b EXCEPT !.rules = push(@, <<"type", expectedType>>)]

\* custom(validator): this.rules.push(`custom:${validator.id}`)
custom(b, v) == [b EXCEPT !.rules = push(@, <<"custom", Id(v)>>)]

\* build(): return new TestValidator().  builtFrom notes the rules declared
\* when build() was called.
build(b) == [b EXCEPT !.built = "TestValidator", !.builtFrom = b.rules]

Required ==
  /\ subject = "builder"
  /\ Len(builder.rules) < MaxRules
  /\ builder' = required(builder)
  /\ UNCHANGED <<subject, impl, validators, added, info, run, cond, single, context, vresult>>

Type(expectedType) ==
  /\ subject = "builder"
  /\ Len(builder.rules) < MaxRules
  /\ builder' = type(builder, expectedType)
  /\ UNCHANGED <<subject, impl, validators, added, info, run, cond, single, context, vresult>>

Custom(v) ==
  /\ subject = "builder"
  /\ Len(builder.rules) < MaxRules
  /\ builder' = custom(builder, v)
  /\ UNCHANGED <<subject, impl, validators, added, info, run, cond, single, context, vresult>>

Build ==
  /\ subject = "builder"
  /\ builder' = build(builder)
  /\ UNCHANGED <<subject, impl, validators, added, info, run, cond, single, context, vresult>>

\* The validator that build() returned validates input.
BuiltValidate(input) ==
  /\ subject = "builder"
  /\ builder.built # "none"
  /\ builder' = [builder EXCEPT !.input = input,
                                !.result = validate(builder.built, input)]
  /\ UNCHANGED <<subject, impl, validators, added, info, run, cond, single, context, vresult>>

\* -------------------------------------------------------- a single validator

\* A validator of class kind (min and max are NumberRangeValidator's) that
\* has not validated anything.
NewValidator(kind, min, max) ==
  [kind |-> kind, min |-> min, max |-> max, input |-> None, result |-> None]

\* The inputs a validator of the class takes.
InputsOf(kind) == IF kind = "NumberRangeValidator" THEN 0..MaxNum ELSE Inputs

\* validator.validate(input, context) of the single validator.
singleValidate(sv, input) ==
  IF sv.kind = "NumberRangeValidator"
    THEN NumberRangeValidator_validate(sv.min, sv.max, input)
    ELSE validate(sv.kind, input)

Validate(input) ==
  /\ subject = "validator"
  /\ single' = [single EXCEPT !.input = [v |-> input],
                              !.result = singleValidate(single, input)]
  /\ UNCHANGED <<subject, impl, validators, added, info, run, cond, builder,
                 context, vresult>>

\* ------------------------------------------------------- validation context

\* The outcome tags of a validationHistory entry.
Outcomes == {"success", "failure", "warning"}

\* The entries a client pushes: { validatorId, timestamp: Date.now(), result }.
HistoryEntries ==
  [validatorId : {"test"}, timestamp : 0..MaxTime, result : Outcomes]

\* createMockValidationContext(): no data, no history, the mock's options.
\* A Map is the set of its key/value pairs.
createMockValidationContext ==
  [ validationData |-> {},
    validationHistory |-> <<>>,
    validationOptions |-> [stopOnFirstError |-> FALSE, includeWarnings |-> TRUE] ]

\* The README's validationContext literal.
readmeValidationContext ==
  [ validationData |-> {<<"skipWarnings", TRUE>>, <<"strictMode", FALSE>>},
    validationHistory |-> <<>>,
    validationOptions |-> [stopOnFirstError |-> TRUE, includeWarnings |-> FALSE] ]

\* A history that keeps only its newest entry.
recordValidation_keepLast(ctx, entry) ==
  [ctx EXCEPT !.validationHistory = <<entry>>]

\* context.validationHistory.push(entry)
recordValidation(ctx, entry) ==
  [ctx EXCEPT !.validationHistory = push(@, entry)]

PushHistory(entry) ==
  /\ subject = "context"
  /\ Len(context.validationHistory) < MaxHistory
  /\ context' = recordValidation(context, entry)
  /\ UNCHANGED <<subject, impl, validators, added, info, run, cond, builder, single,
                 vresult>>

\* --------------------------------------------------------- validation result

\* A result literal that leaves data out.
validationResultLiteral_noData ==
  [ isValid |-> TRUE,
    errors |-> <<>>,
    warnings |-> <<>>,
    metadata |-> [ validatorId |-> "test-validator", executionTime |-> 10,
                   rulesApplied |-> <<"required", "type-check">> ] ]

\* The IFlowValidationResult<string> object the test constructs.
validationResultLiteral ==
  [ isValid |-> TRUE,
    data |-> "validated-data",
    errors |-> <<>>,
    warnings |-> <<>>,
    metadata |-> [ validatorId |-> "test-validator", executionTime |-> 10,
                   rulesApplied |-> <<"required", "type-check">> ] ]

ConstructResult ==
  /\ subject = "result"
  /\ vresult' = validationResultLiteral
  /\ UNCHANGED <<subject, impl, validators, added, info, run, cond, builder, single,
                 context>>

\* ------------------------------------------------------------ specification

\* One object is constructed: a pipeline, a conditional validator, a builder
\* or a validator, of one of its classes; the others stay as constructed.
Init ==
  /\ subject \in Subjects
  /\ impl \in IF subject = "pipeline" THEN PipelineClasses
                                     ELSE {"StringValidationPipeline"}
  /\ validators = <<>>
  /\ added = <<>>
  /\ info = None
  /\ run = NoRun
  /\ cond \in IF subject = "conditional"
                THEN {NoCall(c) : c \in ConditionalClasses}
                ELSE {NoCall("TestConditionalValidator")}
  /\ builder = NewBuilder
  /\ single \in IF subject = "validator"
                  THEN {NewValidator(k, 0, 0) : k \in StringValidators}
                       \cup {NewValidator("NumberRangeValidator", min, max) :
                               min \in 0..MaxNum, max \in 0..MaxNum}
                  ELSE {NewValidator("TestValidator", 0, 0)}
  /\ context \in IF subject = "context"
                   THEN {createMockValidationContext, readmeValidationContext}
                   ELSE {createMockValidationContext}
  /\ vresult = None

Next ==
  \/ \E v \in StringValidators : AddValidator(v)
  \/ GetPipelineInfo
  \/ \E input \in Inputs : ValidatePipeline(input)
  \/ ResumePipeline
  \/ \E input \in Inputs : ValidateConditionally(input)
  \/ ResumeConditional
  \/ SettleConditional
  \/ Required
  \/ \E t \in TypeNames : Type(t)
  \/ \E v \in StringValidators : Custom(v)
  \/ Build
  \/ \E input \in Inputs : BuiltValidate(input)
  \/ \E input \in InputsOf(single.kind) : Validate(input)
  \/ \E entry \in HistoryEntries : PushHistory(entry)
  \/ ConstructResult

Spec == Init /\ [][Next]_vars

\* Every awaited validator and predicate call eventually settles, and the
\* event loop then runs the continuation that waits for it.
FairSpec ==
  /\ Spec
  /\ WF_vars(ResumePipeline)
  /\ WF_vars(ResumeConditional)
  /\ WF_vars(SettleConditional)

\* ------------------------------------------------------------------ claims

\* Positions of the validate calls of the run that returned a failure.
Failed == {k \in DOMAIN run.results : ~run.results[k].isSuccess}

\* The position of the first validate call of the run that failed.
FirstFailed == CHOOSE k \in Failed : \A j \in Failed : k <= j

\* What running the validators vs in order on x yields: the first failure, or
\* a success carrying the last output.
RECURSIVE ChainResult(_, _)
ChainResult(vs, x) ==
  IF vs = <<>>
    THEN success(x)
    ELSE LET r == validate(Head(vs), x)
         IN  IF r.isSuccess THEN ChainResult(Tail(vs), r.value) ELSE r

\* C1: short-circuit on first failure: once the validate call at position k
\* of a validatePipeline run has returned a failure, that run has invoked no
\* validator after position k.
C1_ShortCircuit ==
  \A k \in DOMAIN run.results :
    ~run.results[k].isSuccess =>
      /\ Len(run.calls) = k
      /\ \A j \in DOMAIN run.calls : run.calls[j].pos <= k

\* A run ended by a failure while a later validator was attached and not invoked.
C1_Witness ==
  /\ run.pc = "done"
  /\ Failed # {}
  /\ run.attachedAtReturn > Len(run.calls)

\* C2: failure propagation is unchanged: a finished run that contains a
\* failing validator returns exactly the failure result (the same object, the
\* same error) that the first failing validator returned.
C2_FailureUnchanged ==
  (run.pc = "done" /\ Failed # {}) =>
    /\ run.result = run.results[FirstFailed]
    /\ run.resultObj = FirstFailed
    /\ run.result = validate(validators[FirstFailed], run.calls[FirstFailed].arg)
    /\ ~run.result.isSuccess

\* A run whose second validator failed after the first succeeded.
C2_Witness ==
  /\ run.pc = "done"
  /\ Failed # {}
  /\ FirstFailed >= 2
  /\ run.result.error.code = "INVALID_EMAIL"

C4_InfoReflectsAdds ==
  /\ getPipelineInfo.validatorCount = Len(added)
  /\ getPipelineInfo.validatorIds = added
  /\ Len(getPipelineInfo.validatorIds) = Len(added)

\* Two validators with different ids were added after getPipelineInfo had
\* returned a count of one.
C4_Witness ==
  /\ Len(added) = 2
  /\ added[1] # added[2]
  /\ info # None
  /\ info.validatorCount = 1
  /\ getPipelineInfo.validatorCount = 2

\* C5: validateConditionally(x) returns success(x), x unchanged, when
\* shouldValidate(x) is false, and the result of the wrapped validation of x
\* when it is true; with `non-empty` and `trim`, "" yields success("") and
\* " x " yields success("x").
C5_ConditionalResult ==
  cond.pc = "done" =>
    /\ cond.result = IF shouldValidate(cond.class, cond.input)
                       THEN wrappedValidation(cond.class, cond.input)
                       ELSE success(cond.input)
    /\ (cond.class = "TestConditionalValidator" /\ cond.input = <<>>) =>
         cond.result = success(<<>>)
    /\ (cond.class = "TestConditionalValidator" /\ cond.input = <<" ", "x", " ">>) =>
         cond.result = success(<<"x">>)

\* A finished call whose predicate was false and whose input the wrapped
\* validation would have rejected.
C5_Witness ==
  /\ cond.pc = "done"
  /\ ~shouldValidate(cond.class, cond.input)
  /\ ~wrappedValidation(cond.class, cond.input).isSuccess
  /\ cond.result = success(cond.input)

\* C6: in validateConditionally the predicate decision comes first: the
\* wrapped validation is performed only after the predicate of that call has
\* evaluated to true, and never in a call whose predicate evaluated to false.
C6_PredicateFirst ==
  /\ cond.pc # "idle" =>
       cond.events[1] = <<"shouldValidate", shouldValidate(cond.class, cond.input)>>
  /\ \A p \in DOMAIN cond.events :
       cond.events[p][1] = "validate" =>
         /\ p > 1
         /\ cond.events[1] = <<"shouldValidate", TRUE>>
  /\ (cond.pc # "idle" /\ ~shouldValidate(cond.class, cond.input)) =>
       \A p \in DOMAIN cond.events : cond.events[p][1] # "validate"

\* A call that performed the validation after its predicate had said yes.
C6_Witness ==
  /\ cond.pc = "awaitValidation"
  /\ cond.events = << <<"shouldValidate", TRUE>>, <<"validate", TRUE>> >>

\* A result is a success with a value and no error, or a failure with an
\* error and no value.
ExactlyOne(r) ==
  /\ "isSuccess" \in DOMAIN r
  /\ \/ r.isSuccess /\ DOMAIN r = {"isSuccess", "value"}
     \/ ~r.isSuccess /\ DOMAIN r = {"isSuccess", "error"}

\* C7: every result that validate returns is exactly one of success-with-output
\* or failure-with-error, never both and never neither.
C7_ExactlyOne ==
  /\ single.input # None => ExactlyOne(single.result)
  /\ \A k \in DOMAIN run.results : ExactlyOne(run.results[k])
  /\ builder.result # None => ExactlyOne(builder.result)

\* A NumberRangeValidator rejected a number outside its range.
C7_Witness ==
  /\ single.kind = "NumberRangeValidator"
  /\ single.input # None
  /\ single.input.v > single.max
  /\ ~single.result.isSuccess
  /\ single.result.error.code = "OUT_OF_RANGE"

\* Whether a string input satisfies a declared rule: `required` by being
\* given, `type:t` by t being string, `custom:id` by the validator with that
\* id accepting it.
RuleAccepts(rule, input) ==
  CASE rule[1] = "required" -> TRUE
    [] rule[1] = "type" -> rule[2] = "string"
    [] rule[1] = "custom" ->
         \A v \in StringValidators : Id(v) = rule[2] => validate(v, input).isSuccess

\* C8: the validator build() returns is consistent with every rule declared
\* before build(): it accepts an input only if each of those rules does.
C8_BuildKeepsRules ==
  (builder.result # None /\ builder.result.isSuccess) =>
    \A p \in DOMAIN builder.builtFrom : RuleAccepts(builder.builtFrom[p], builder.input)

\* C9: the validators of one run execute strictly one after another: at most
\* one validate call is in flight, the run is suspended exactly while one is,
\* and the call at position k + 1 is made only after the call at k returned.
C9_Sequential ==
  /\ Len(run.calls) - Len(run.results) \in {0, 1}
  /\ run.pc = "awaiting" <=> Len(run.calls) = Len(run.results) + 1
  /\ \A k \in DOMAIN run.calls : run.calls[k].pos = k

\* The second validator is in flight after the first has returned.
C9_Witness ==
  /\ run.pc = "awaiting"
  /\ Len(run.results) = 1
  /\ Len(run.calls) = 2

\* The call is suspended at an await.
CondSuspended == cond.pc \in {"awaitPredicate", "awaitValidation"}

\* C10: every validatePipeline and validateConditionally call whose awaited
\* calls settle eventually resolves, and resolves exactly once.
C10_Resolves ==
  /\ (run.pc = "awaiting") ~> (run.pc = "done")
  /\ CondSuspended ~> (cond.pc = "done")
  /\ [](run.pc = "done" <=> run.resolutions = 1)
  /\ [](run.pc # "done" => run.resolutions = 0)
  /\ [](cond.pc = "done" <=> cond.resolutions = 1)
  /\ [](cond.pc # "done" => cond.resolutions = 0)

\* A run that awaited two validators has resolved.
C10_Witness ==
  /\ run.pc = "done"
  /\ run.resolutions = 1
  /\ Len(run.results) >= 2

\* Sequence s is an initial part of sequence t.
IsPrefix(s, t) == Len(s) <= Len(t) /\ SubSeq(t, 1, Len(s)) = s

\* C11: validationHistory is an append-only ordered log: no step shortens it
\* or removes, reorders or alters a recorded entry, and a step that changes it
\* adds one entry (validator id, timestamp, outcome success, failure or
\* warning) at its end.
C11_AppendOnly ==
  [][ /\ Len(context.validationHistory') >= Len(context.validationHistory)
      /\ IsPrefix(context.validationHistory, context.validationHistory')
      /\ context.validationHistory' # context.validationHistory =>
           /\ Len(context.validationHistory') = Len(context.validationHistory) + 1
           /\ context.validationHistory'[Len(context.validationHistory')]
                \in HistoryEntries ]_vars

\* A history of two different entries, the later pushed after the earlier.
C11_Witness ==
  /\ Len(context.validationHistory) = 2
  /\ context.validationHistory[1].result = "success"
  /\ context.validationHistory[2].result = "failure"

Count(s, x) == Cardinality({i \in DOMAIN s : s[i] = x})

\* C15: validatorCount always equals the length of validatorIds, and
\* attaching does not de-duplicate: every addValidator call yields an entry,
\* so a validator added twice is listed twice and counted twice.
C15_CountIsLength ==
  /\ getPipelineInfo.validatorCount = Len(getPipelineInfo.validatorIds)
  /\ info # None => info.validatorCount = Len(info.validatorIds)
  /\ \A v \in StringValidators :
       Count(getPipelineInfo.validatorIds, Id(v)) = Count(added, Id(v))

\* The same validator class was added twice and is listed twice.
C15_Witness ==
  /\ Len(added) = 2
  /\ added[1] = added[2]
  /\ getPipelineInfo.validatorCount = 2
  /\ getPipelineInfo.validatorIds[1] = getPipelineInfo.validatorIds[2]

\* C16: only addValidator changes the attached validators: a step that is not
\* an addValidator call (getPipelineInfo, validatePipeline being called,
\* continuing, returning a success or a failure) leaves the list, its order
\* and what getPipelineInfo returns unchanged, and an addValidator call appends.
C16_OnlyAddChanges ==
  [][ /\ added' = added =>
           /\ validators' = validators
           /\ getPipelineInfo' = getPipelineInfo
      /\ added' # added =>
           /\ Len(validators') = Len(validators) + 1
           /\ SubSeq(validators', 1, Len(validators)) = validators ]_vars

\* A run over two different validators ended in a failure, and getPipelineInfo
\* was read with both attached.
C16_Witness ==
  /\ run.pc = "done"
  /\ Failed # {}
  /\ Len(validators) = 2
  /\ validators[1] # validators[2]
  /\ info # None
  /\ info.validatorIds = added

\* C17: validatePipeline on a pipeline without validators returns a success
\* carrying the input unchanged, and invokes nothing.
C17_EmptyPipeline ==
  (run.pc = "done" /\ run.attachedAtCall = 0) =>
    /\ run.result = success(run.input)
    /\ run.resultObj = 0
    /\ run.calls = <<>>
    /\ run.attachedAtReturn = 0

\* An empty StringValidationPipeline validated a non-empty input.
C17_Witness ==
  /\ impl = "StringValidationPipeline"
  /\ run.pc = "done"
  /\ run.attachedAtCall = 0
  /\ run.input = <<" ", "x", " ">>
  /\ validators = <<>>

====
